---- MODULE Spec2Model ----
(***************************************************************************)
(* A model of src/midi.c (Mitzi Midi, a USB-MIDI monitor for the Flipper   *)
(* Zero): the USB-MIDI packet decoder, the eight-slot message history, the *)
(* formatter, and the run loop that applies key, MIDI and USB-status       *)
(* events taken from one bounded message queue.                            *)
(***************************************************************************)
EXTENDS Integers, Sequences, FiniteSets, TLC

(***************************************************************************)
(* Program constants.                                                      *)
(***************************************************************************)
MAX_MIDI_MESSAGES == 8

\* furi_message_queue_alloc(16, sizeof(MidiEvent))
QUEUE_CAPACITY == 16

\* the literal 4 of render_callback and of the InputKeyDown case
VISIBLE_LINES == 4

\* MidiMessageType
MidiNoteOff == 128

MidiNoteOn == 144

MidiPolyAftertouch == 160

MidiControlChange == 176

MidiProgramChange == 192

MidiChannelAftertouch == 208

MidiPitchBend == 224

MidiSystemMessage == 240

\* the eight enumerators of MidiMessageType
MidiMessageType ==
  {MidiNoteOff, MidiNoteOn, MidiPolyAftertouch, MidiControlChange,
   MidiProgramChange, MidiChannelAftertouch, MidiPitchBend, MidiSystemMessage}

\* EventType
EventTypeKey == "EventTypeKey"

EventTypeMidi == "EventTypeMidi"

EventTypeUsbStatus == "EventTypeUsbStatus"

(***************************************************************************)
(* Bounds of the model.                                                    *)
(***************************************************************************)
\* the clock (furi_get_tick) runs from 0 to MaxTick
MaxTick == 1

\* the producers of Spec leave at most MaxPending events waiting in the queue
MaxPending == 2

\* at most MaxInserts MIDI events are produced between two clears
MaxInserts == 9

\* SpecDecode: the framing packets have at most MaxLen bytes
MaxLen == 8

(***************************************************************************)
(* C integer arithmetic.                                                   *)
(***************************************************************************)
Min(a, b) == IF a < b THEN a ELSE b

\* conversion to uint8_t
U8(n) == n % 256

\* conversion to int16_t (two's complement)
I16(n) == ((n + 32768) % 65536) - 32768

RECURSIVE BitAnd(_, _)
\* a & b, for a, b >= 0
BitAnd(a, b) ==
  IF a = 0 \/ b = 0 THEN 0
  ELSE (a % 2) * (b % 2) + 2 * BitAnd(a \div 2, b \div 2)

RECURSIVE BitOr(_, _)
\* a | b, for a, b >= 0
BitOr(a, b) ==
  IF a = 0 THEN b
  ELSE IF b = 0 THEN a
  ELSE (IF a % 2 = 1 \/ b % 2 = 1 THEN 1 ELSE 0) + 2 * BitOr(a \div 2, b \div 2)

(***************************************************************************)
(* snprintf conversions used by the formatter.                             *)
(***************************************************************************)
HexDigits == <<"0", "1", "2", "3", "4", "5", "6", "7",
               "8", "9", "A", "B", "C", "D", "E", "F">>

RECURSIVE DecDigits(_)
\* the decimal digits of n >= 0
DecDigits(n) ==
  IF n < 10 THEN HexDigits[n + 1]
  ELSE DecDigits(n \div 10) \o HexDigits[(n % 10) + 1]

RECURSIVE NumDigits(_)
NumDigits(n) == IF n < 10 THEN 1 ELSE 1 + NumDigits(n \div 10)

RECURSIVE Zeros(_)
Zeros(k) == IF k <= 0 THEN "" ELSE "0" \o Zeros(k - 1)

\* "%d"
FmtD(n) == IF n < 0 THEN "-" \o DecDigits(-n) ELSE DecDigits(n)

\* "%0<width>d" for n >= 0
FmtDPad(n, width) == Zeros(width - NumDigits(n)) \o DecDigits(n)

\* "%+05d": the sign always, zero-padded to five characters
FmtDSigned5(n) ==
  IF n < 0 THEN "-" \o Zeros(4 - NumDigits(-n)) \o DecDigits(-n)
  ELSE "+" \o Zeros(4 - NumDigits(n)) \o DecDigits(n)

\* "%02X" for 0 <= n <= 255
FmtX2(n) == HexDigits[(n \div 16) + 1] \o HexDigits[(n % 16) + 1]

(***************************************************************************)
(* parse_midi_status                                                       *)
(***************************************************************************)
\* parse_midi_status without its branch for system messages
parse_midi_status_NoSystem(status) ==
  [type |-> BitAnd(status, 240), channel |-> BitAnd(status, 15)]

\* parse_midi_status taking every byte outside 0x80..0xEF for a system message
parse_midi_status_LowIsSystem(status) ==
  IF status >= 128 /\ status < 240
  THEN [type |-> BitAnd(status, 240), channel |-> BitAnd(status, 15)]
  ELSE [type |-> MidiSystemMessage, channel |-> 0]

parse_midi_status(status) ==
  IF status < 240
  THEN [type |-> BitAnd(status, 240), channel |-> BitAnd(status, 15)]
  ELSE [type |-> MidiSystemMessage, channel |-> 0]

(***************************************************************************)
(* midi_note_to_string                                                     *)
(***************************************************************************)
note_names == <<"C", "C#", "D", "D#", "E", "F", "F#", "G", "G#", "A", "A#", "B">>

\* uint8_t octave = (note / 12) - 1;
NoteOctave(note) == U8((note \div 12) - 1)

midi_note_to_string(note) ==
  LET octave == NoteOctave(note)
      note_index == U8(note % 12)
  IN  note_names[note_index + 1] \o FmtD(octave)

(***************************************************************************)
(* format_midi_message.  The longest line it can produce has 25            *)
(* characters and the longest note string 5, so snprintf never truncates   *)
(* in msg_buffer[32] or note_str[8].                                       *)
(***************************************************************************)
\* int16_t bend = ((msg->data2 << 7) | msg->data1) - 8192;
\* the two data bytes joined as two whole bytes
PitchBendValue_Shift8(data1, data2) == I16(BitOr(data2 * 256, data1) - 8192)

\* int16_t bend = ((msg->data2 << 7) | msg->data1) - 8192;
PitchBendValue(data1, data2) == I16(BitOr(data2 * 128, data1) - 8192)

format_midi_message(msg) ==
  LET ch == FmtDPad(msg.channel + 1, 2) IN
  CASE msg.type = MidiNoteOn ->
         IF msg.data2 > 0
         THEN "NoteOn  Ch" \o ch \o " " \o midi_note_to_string(msg.data1)
              \o " Vel" \o FmtDPad(msg.data2, 3)
         ELSE "NoteOff Ch" \o ch \o " " \o midi_note_to_string(msg.data1)
    [] msg.type = MidiNoteOff ->
         "NoteOff Ch" \o ch \o " " \o midi_note_to_string(msg.data1)
         \o " Vel" \o FmtDPad(msg.data2, 3)
    [] msg.type = MidiControlChange ->
         "CC      Ch" \o ch \o " #" \o FmtDPad(msg.data1, 3)
         \o "=" \o FmtDPad(msg.data2, 3)
    [] msg.type = MidiProgramChange ->
         "ProgChg Ch" \o ch \o " Prg" \o FmtDPad(msg.data1, 3)
    [] msg.type = MidiPitchBend ->
         "PitchBd Ch" \o ch \o " " \o FmtDSigned5(PitchBendValue(msg.data1, msg.data2))
    [] msg.type = MidiChannelAftertouch ->
         "ChPress Ch" \o ch \o " Val" \o FmtDPad(msg.data1, 3)
    [] msg.type = MidiPolyAftertouch ->
         "PolyAT  Ch" \o ch \o " " \o midi_note_to_string(msg.data1)
         \o " P" \o FmtDPad(msg.data2, 3)
    [] msg.type = MidiSystemMessage ->
         "System  0x" \o FmtX2(msg.status)
    [] OTHER ->
         "Unknown 0x" \o FmtX2(msg.status)

(***************************************************************************)
(* The data of the program.                                                *)
(***************************************************************************)
\* a MidiMessage
MidiMessage(status, data1, data2, channel, type, timestamp) ==
  [status |-> status, data1 |-> data1, data2 |-> data2,
   channel |-> channel, type |-> type, timestamp |-> timestamp]

\* a MidiMessage of zero bytes: memset(app->state, 0, ...) and MidiMessage msg = {0}
ZeroMessage == MidiMessage(0, 0, 0, 0, 0, 0)

\* InputEvent: the keys and the phases of the input service
InputKeys == {"InputKeyUp", "InputKeyDown", "InputKeyOk", "InputKeyBack", "InputKeyLeft"}

InputTypes == {"InputTypePress", "InputTypeRepeat", "InputTypeRelease"}

InputEvent(key, type) == [key |-> key, type |-> type]

\* MidiEvent event = {.type = EventTypeKey, .input = *input_event};
KeyEvent(input) == [type |-> EventTypeKey, input |-> input]

\* MidiEvent event = {.type = EventTypeMidi, .midi = msg};
MidiEvent(msg) == [type |-> EventTypeMidi, midi |-> msg]

\* a MidiEvent of type EventTypeUsbStatus
UsbStatusEvent(connected) == [type |-> EventTypeUsbStatus, usb_connected |-> connected]

Slots == 0 .. (MAX_MIDI_MESSAGES - 1)

\* init_usb_midi: the stub returns false
init_usb_midi == FALSE

\* MidiState after malloc, memset and init_usb_midi
InitialState ==
  [messages |-> [i \in Slots |-> ZeroMessage],
   message_count |-> 0,
   display_offset |-> 0,
   usb_connected |-> init_usb_midi,
   last_message_time |-> 0]

VARIABLES
  state,        \* app->state, the MidiState
  event_queue,  \* app->event_queue, oldest event first
  running,      \* the run loop's flag
  tick,         \* furi_get_tick()
  inserted,     \* the messages add_midi_message was given since start or the last clear, oldest first
  rx_data,      \* SpecDecode: the packet the transport delivers
  rx_pending,   \* SpecDecode: rx_data is still to be delivered
  frame,        \* what render_callback drew last
  rx_i,         \* SpecBurst: the index i of usb_midi_rx_callback's loop
  input_wait,   \* SpecFlood: the event input_callback is waiting to put, or NoInput
  mutex,        \* SpecMutex: who holds app->mutex
  loop_pc,      \* SpecMutex: where the run loop is in its iteration
  loop_event,   \* SpecMutex: the run loop's local variable event
  render_pc,    \* SpecMutex: where render_callback is
  accepted,     \* SpecOrder: every event the queue accepted, in the order of the puts
  applied       \* SpecOrder: every event the run loop applied, in the order of the gets

\* the variables only the step-by-step specifications change
fine == <<rx_i, input_wait, mutex, loop_pc, loop_event, render_pc>>

\* the logs of SpecOrder
logs == <<accepted, applied>>

vars == <<state, event_queue, running, tick, inserted, rx_data, rx_pending, frame, fine, logs>>

\* no event: input_wait when input_callback is not waiting, loop_event before the first get
NoEvent == [type |-> "none"]

(***************************************************************************)
(* add_midi_message                                                        *)
(***************************************************************************)
\* add_midi_message with message_count <= MAX_MIDI_MESSAGES as its test
add_midi_message_OffByOne(st, message, now) ==
  LET full == ~(st.message_count <= MAX_MIDI_MESSAGES)
      shifted == [i \in Slots |-> IF i > 0 THEN st.messages[i - 1] ELSE st.messages[i]]
      kept == IF full THEN shifted ELSE st.messages
  IN  [st EXCEPT !.message_count = IF full THEN @ ELSE U8(@ + 1),
                 !.messages = [kept EXCEPT ![0] = message],
                 !.last_message_time = now]

\* add_midi_message that writes below capacity at the first free slot
add_midi_message_Append(st, message, now) ==
  LET full == ~(st.message_count < MAX_MIDI_MESSAGES)
      shifted == [i \in Slots |-> IF i > 0 THEN st.messages[i - 1] ELSE st.messages[i]]
  IN  [st EXCEPT !.message_count = IF full THEN @ ELSE U8(@ + 1),
                 !.messages = IF full THEN [shifted EXCEPT ![0] = message]
                              ELSE [st.messages EXCEPT ![st.message_count] = message],
                 !.last_message_time = now]

add_midi_message(st, message, now) ==
  LET full == ~(st.message_count < MAX_MIDI_MESSAGES)
      \* for(i = MAX_MIDI_MESSAGES - 1; i > 0; i--) messages[i] = messages[i - 1];
      shifted == [i \in Slots |-> IF i > 0 THEN st.messages[i - 1] ELSE st.messages[i]]
      kept == IF full THEN shifted ELSE st.messages
  IN  [st EXCEPT !.message_count = IF full THEN @ ELSE U8(@ + 1),
                 !.messages = [kept EXCEPT ![0] = message],
                 !.last_message_time = now]

(***************************************************************************)
(* The run loop's switch over a key event.                                 *)
(***************************************************************************)
\* a switch over the key that every phase of the key enters
KeyActs_AnyPhase(input) == input.type \in InputTypes

\* if(event.input.type == InputTypePress || event.input.type == InputTypeRepeat)
KeyActs(input) == input.type = "InputTypePress" \/ input.type = "InputTypeRepeat"

\* Up without the test display_offset > 0
ScrollUp_NoFloor(st) == [st EXCEPT !.display_offset = U8(@ - 1)]

\* case InputKeyUp
ScrollUp(st) ==
  IF st.display_offset > 0
  THEN [st EXCEPT !.display_offset = U8(@ - 1)]
  ELSE st

\* case InputKeyDown without the window in its test
ScrollDown_NoWindow(st) ==
  IF st.display_offset < st.message_count
  THEN [st EXCEPT !.display_offset = U8(@ + 1)]
  ELSE st

\* case InputKeyDown
ScrollDown(st) ==
  IF st.display_offset + VISIBLE_LINES < st.message_count
  THEN [st EXCEPT !.display_offset = U8(@ + 1)]
  ELSE st

\* case InputKeyOk without the reset of display_offset
ClearHistory_KeepOffset(st) == [st EXCEPT !.message_count = 0]

\* case InputKeyOk
ClearHistory(st) == [st EXCEPT !.message_count = 0, !.display_offset = 0]

\* the state after the EventTypeKey case
ProcessKey(st, input) ==
  IF KeyActs(input)
  THEN CASE input.key = "InputKeyUp" -> ScrollUp(st)
         [] input.key = "InputKeyDown" -> ScrollDown(st)
         [] input.key = "InputKeyOk" -> ClearHistory(st)
         [] OTHER -> st
  ELSE st

\* case InputKeyBack outside the test of the phase
KeyStopsLoop_AnyPhase(input) == input.key = "InputKeyBack"

\* a loop that only a held Back stops
KeyStopsLoop_RepeatOnly(input) == input.key = "InputKeyBack" /\ input.type = "InputTypeRepeat"

\* case InputKeyBack: running = false
KeyStopsLoop(input) == KeyActs(input) /\ input.key = "InputKeyBack"

\* case InputKeyOk is taken
KeyClears(input) == KeyActs(input) /\ input.key = "InputKeyOk"

(***************************************************************************)
(* usb_midi_rx_callback.  data is the packet, a sequence of bytes; the     *)
(* byte the code calls data[i] is data[i + 1] here.                        *)
(***************************************************************************)
\* a put that makes room in a full queue by discarding the oldest event
QueuePutNoWait_Overwrite(q, ev) ==
  IF Len(q) < QUEUE_CAPACITY THEN Append(q, ev) ELSE Append(Tail(q), ev)

\* a put that places the event at the front of the queue
QueuePutNoWait_Front(q, ev) == IF Len(q) < QUEUE_CAPACITY THEN <<ev>> \o q ELSE q

\* furi_message_queue_put(queue, &event, 0): fails at once when the queue is full
QueuePutNoWait(q, ev) == IF Len(q) < QUEUE_CAPACITY THEN Append(q, ev) ELSE q

\* the loop condition i + 3 < length
RxContinue(i, length) == i + 3 < length

\* the code index number read from the low nibble
RxCin_LowNibble(byte0) == BitAnd(byte0, 15)

\* uint8_t cin = (data[i] >> 4) & 0x0F;
RxCin(byte0) == BitAnd(byte0 \div 16, 15)

\* the message one stride is decoded to
RxMessage(status, data1, data2, now) ==
  LET parsed == parse_midi_status(status)
  IN  MidiMessage(status, data1, data2, parsed.channel, parsed.type, now)

\* the queue after the body of the loop has run for the stride at i
RxStride(q, data, i, now) ==
  LET cin == RxCin(data[i + 1])
      status == data[i + 2]
      data1 == data[i + 3]
      data2 == data[i + 4]
  IN  IF cin = 0
      THEN q
      ELSE QueuePutNoWait(q, MidiEvent(RxMessage(status, data1, data2, now)))

RECURSIVE RxLoop(_, _, _, _)
RxLoop(q, data, i, now) ==
  IF RxContinue(i, Len(data))
  THEN RxLoop(RxStride(q, data, i, now), data, i + 4, now)
  ELSE q

\* the queue after usb_midi_rx_callback(data, length, ctx)
usb_midi_rx_callback(q, data, now) == RxLoop(q, data, 0, now)

RECURSIVE RxReads(_, _)
\* the indices of data the loop reads from stride i on
RxReads(i, length) ==
  IF RxContinue(i, length)
  THEN {i, i + 1, i + 2, i + 3} \cup RxReads(i + 4, length)
  ELSE {}

(***************************************************************************)
(* render_callback: what it draws from the state.                          *)
(***************************************************************************)
\* the indicators drawn only once all eight slots are in use
ShowScrollIndicators_WhenFull(st) == st.message_count >= MAX_MIDI_MESSAGES

\* if(state->message_count > 4)
ShowScrollIndicators(st) == st.message_count > VISIBLE_LINES

render_callback(st) ==
  LET messages_to_show ==
        IF st.message_count < VISIBLE_LINES THEN st.message_count ELSE VISIBLE_LINES
      msg_index(i) == U8(i + st.display_offset)
      drawn == SelectSeq([k \in 1 .. messages_to_show |-> msg_index(k - 1)],
                         LAMBDA idx : idx < st.message_count)
  IN  [usb |-> IF st.usb_connected THEN "USB: Connected" ELSE "USB: Waiting...",
       lines |-> [k \in 1 .. Len(drawn) |-> format_midi_message(st.messages[drawn[k]])],
       waiting |-> (st.message_count = 0),
       up |-> (ShowScrollIndicators(st) /\ st.display_offset > 0),
       down |-> (ShowScrollIndicators(st)
                 /\ st.display_offset + VISIBLE_LINES < st.message_count)]

\* nothing drawn yet
NoFrame == [usb |-> "", lines |-> <<>>, waiting |-> FALSE, up |-> FALSE, down |-> FALSE]

(***************************************************************************)
(* The inputs the environment offers.                                      *)
(***************************************************************************)
\* the key events of the input service
KeyInputs == {InputEvent(k, t) : k \in InputKeys, t \in InputTypes}

\* Spec: the packet of the transport, one Note On
MidiPackets == {<<144, 144, 60, 100>>}

\* SpecHistory: one Note On, and two of them in one packet
HistoryPackets == {<<144, 144, 60, 100>>, <<144, 144, 60, 100, 144, 144, 60, 100>>}

\* SpecHistory: the keys that scroll and clear
HistoryKeys == {InputEvent(k, "InputTypePress") : k \in {"InputKeyUp", "InputKeyDown", "InputKeyOk"}}

\* the MIDI events waiting in q
PendingMidi(q) == Len(SelectSeq(q, LAMBDA ev : ev.type = EventTypeMidi))

(***************************************************************************)
(* The producers.  When the run loop has stopped, midi_main removes the    *)
(* view port and frees the queue, so the producers act only while running. *)
(* In Spec and SpecHistory they leave at most MaxPending events waiting.   *)
(***************************************************************************)
\* input_callback: furi_message_queue_put(..., FuriWaitForever) waits for room
InputCallback(input) ==
  /\ running
  /\ Len(event_queue) < QUEUE_CAPACITY
  /\ Len(event_queue) < MaxPending
  /\ event_queue' = Append(event_queue, KeyEvent(input))
  /\ UNCHANGED <<state, running, tick, inserted, rx_data, rx_pending, frame, fine>>

\* the transport calls usb_midi_rx_callback with a packet
UsbMidiRx(data) ==
  /\ running
  /\ LET q == usb_midi_rx_callback(event_queue, data, tick)
     IN  /\ Len(q) <= MaxPending
         /\ Len(inserted) + PendingMidi(q) <= MaxInserts
         /\ event_queue' = q
  /\ UNCHANGED <<state, running, tick, inserted, rx_data, rx_pending, frame, fine>>

\* the transport reports a connect or a disconnect as an EventTypeUsbStatus event
UsbStatusNotify(connected) ==
  /\ running
  /\ Len(event_queue) < QUEUE_CAPACITY
  /\ Len(event_queue) < MaxPending
  /\ event_queue' = Append(event_queue, UsbStatusEvent(connected))
  /\ UNCHANGED <<state, running, tick, inserted, rx_data, rx_pending, frame, fine>>

\* time passes
Tick ==
  /\ tick < MaxTick
  /\ tick' = tick + 1
  /\ UNCHANGED <<state, event_queue, running, inserted, rx_data, rx_pending, frame, fine>>

(***************************************************************************)
(* The run loop of midi_main: one iteration, from furi_message_queue_get   *)
(* to view_port_update.  The mutex is held from before the switch to after *)
(* it.                                                                     *)
(***************************************************************************)
\* case EventTypeKey
LoopKey ==
  /\ running
  /\ event_queue # <<>>
  /\ Head(event_queue).type = EventTypeKey
  /\ LET input == Head(event_queue).input
     IN  /\ state' = ProcessKey(state, input)
         /\ running' = ~KeyStopsLoop(input)
         /\ inserted' = IF KeyClears(input) THEN <<>> ELSE inserted
  /\ event_queue' = Tail(event_queue)
  /\ UNCHANGED <<tick, rx_data, rx_pending, frame, fine>>

\* the messages inserted since the last clear, the newest MaxInserts of them
Remember(seq, message) ==
  IF Len(seq) < MaxInserts THEN Append(seq, message) ELSE Append(Tail(seq), message)

\* case EventTypeMidi
LoopMidi ==
  /\ running
  /\ event_queue # <<>>
  /\ Head(event_queue).type = EventTypeMidi
  /\ state' = add_midi_message(state, Head(event_queue).midi, tick)
  /\ inserted' = Remember(inserted, Head(event_queue).midi)
  /\ event_queue' = Tail(event_queue)
  /\ UNCHANGED <<running, tick, rx_data, rx_pending, frame, fine>>

\* a connectivity event that also rewinds the window
ApplyUsbStatus_Rewinds(st, connected) ==
  [st EXCEPT !.usb_connected = connected, !.display_offset = 0]

\* app->state.usb_connected = event.usb_connected
ApplyUsbStatus(st, connected) == [st EXCEPT !.usb_connected = connected]

\* case EventTypeUsbStatus
LoopUsbStatus ==
  /\ running
  /\ event_queue # <<>>
  /\ Head(event_queue).type = EventTypeUsbStatus
  /\ state' = ApplyUsbStatus(state, Head(event_queue).usb_connected)
  /\ event_queue' = Tail(event_queue)
  /\ UNCHANGED <<running, tick, inserted, rx_data, rx_pending, frame, fine>>

\* furi_message_queue_get times out on the empty queue: nothing is applied and
\* the loop tests running again (the time that passes is Tick's)
LoopTimeout ==
  /\ running
  /\ event_queue = <<>>
  /\ UNCHANGED vars

\* the GUI calls render_callback
Render ==
  /\ frame' = render_callback(state)
  /\ UNCHANGED <<state, event_queue, running, tick, inserted, rx_data, rx_pending, fine>>

(***************************************************************************)
(* Spec: the run loop with its three producers, at one value of the clock. *)
(***************************************************************************)
\* before the first callback and the first iteration of the run loop
InitFine ==
  /\ rx_i = 0
  /\ input_wait = NoEvent
  /\ mutex = "free"
  /\ loop_pc = "get"
  /\ loop_event = NoEvent
  /\ render_pc = "idle"

InitLogs == accepted = <<>> /\ applied = <<>>

Init ==
  /\ state = InitialState
  /\ event_queue = <<>>
  /\ running = TRUE
  /\ tick = 0
  /\ inserted = <<>>
  /\ rx_data = <<>>
  /\ rx_pending = FALSE
  /\ frame = NoFrame
  /\ InitFine
  /\ InitLogs

Next ==
  \/ (\E input \in KeyInputs : InputCallback(input)) /\ UNCHANGED logs
  \/ (\E data \in MidiPackets : UsbMidiRx(data)) /\ UNCHANGED logs
  \/ (\E connected \in BOOLEAN : UsbStatusNotify(connected)) /\ UNCHANGED logs
  \/ LoopKey /\ UNCHANGED logs
  \/ LoopMidi /\ UNCHANGED logs
  \/ LoopUsbStatus /\ UNCHANGED logs
  \/ LoopTimeout

Spec == Init /\ [][Next]_vars

(***************************************************************************)
(* SpecHistory: the history under MIDI packets, scrolling and clearing,    *)
(* with the clock advancing.                                               *)
(***************************************************************************)
NextHistory ==
  \/ (\E input \in HistoryKeys : InputCallback(input)) /\ UNCHANGED logs
  \/ (\E data \in HistoryPackets : UsbMidiRx(data)) /\ UNCHANGED logs
  \/ Tick /\ UNCHANGED logs
  \/ LoopKey /\ UNCHANGED logs
  \/ LoopMidi /\ UNCHANGED logs

SpecHistory == Init /\ [][NextHistory]_vars

(***************************************************************************)
(* SpecBurst: usb_midi_rx_callback one stride at a time against the run    *)
(* loop, with nothing holding the transport back, so that the queue fills. *)
(* rx_pending says the callback is running, rx_data is its packet and rx_i *)
(* its loop index.                                                         *)
(***************************************************************************)
\* a Note On stride, a stride with code index 0 and the Note On stride again:
\* the events differ by the tick they were decoded at
BurstPackets == {<<144, 144, 60, 100, 9, 144, 60, 100, 144, 144, 60, 100>>}

\* the transport calls usb_midi_rx_callback: size_t i = 0
RxCall(data) ==
  /\ running
  /\ ~rx_pending
  /\ rx_data' = data
  /\ rx_i' = 0
  /\ rx_pending' = TRUE
  /\ UNCHANGED <<state, event_queue, running, tick, inserted, frame,
                 input_wait, mutex, loop_pc, loop_event, render_pc>>

\* one pass through the body of the for loop, and i += 4
RxStep ==
  /\ rx_pending
  /\ RxContinue(rx_i, Len(rx_data))
  /\ event_queue' = RxStride(event_queue, rx_data, rx_i, tick)
  /\ rx_i' = rx_i + 4
  /\ UNCHANGED <<state, running, tick, inserted, rx_data, rx_pending, frame,
                 input_wait, mutex, loop_pc, loop_event, render_pc>>

\* the loop condition fails and the callback returns
RxReturn ==
  /\ rx_pending
  /\ ~RxContinue(rx_i, Len(rx_data))
  /\ rx_pending' = FALSE
  /\ UNCHANGED <<state, event_queue, running, tick, inserted, rx_data, frame,
                 rx_i, input_wait, mutex, loop_pc, loop_event, render_pc>>

NextBurst ==
  \/ (\E data \in BurstPackets : RxCall(data)) /\ UNCHANGED logs
  \/ RxStep /\ UNCHANGED logs
  \/ RxReturn /\ UNCHANGED logs
  \/ Tick /\ UNCHANGED logs
  \/ LoopMidi /\ UNCHANGED logs
  \/ LoopTimeout

SpecBurst == Init /\ [][NextBurst]_vars

(***************************************************************************)
(* SpecDecode: one packet, from the transport to the display.  The         *)
(* transport delivers rx_data, the run loop inserts the messages decoded   *)
(* from it, and the GUI renders.                                           *)
(***************************************************************************)
\* the bytes of the framing packets: 0x09 (code 0, cable 9), 0x90 and 0x3C
FramingBytes == {9, 144, 60}

RECURSIVE SeqsOfLen(_, _)
\* the sequences of n elements of S
SeqsOfLen(S, n) ==
  IF n = 0 THEN {<<>>}
  ELSE {Append(p, b) : p \in SeqsOfLen(S, n - 1), b \in S}

\* every packet of at most MaxLen framing bytes
FramingPackets == UNION {SeqsOfLen(FramingBytes, n) : n \in 0 .. MaxLen}

\* one stride of code 9 for every status byte
StatusPackets == {<<144, s, 60, 100>> : s \in 0 .. 255}

\* Note On, Note Off and Poly Aftertouch for every note, with velocity 0 and 100
NotePackets == {<<144, s, n, v>> : s \in {128, 144, 160}, n \in 0 .. 127, v \in {0, 100}}

\* one Pitch Bend stride on channel 1, every pair of data bytes
BendPackets == {<<224, 224, d1, d2>> : d1 \in 0 .. 127, d2 \in 0 .. 127}

DecodePackets == FramingPackets \cup StatusPackets \cup NotePackets \cup BendPackets

InitDecode ==
  /\ state = InitialState
  /\ event_queue = <<>>
  /\ running = TRUE
  /\ tick = 0
  /\ inserted = <<>>
  /\ rx_data \in DecodePackets
  /\ rx_pending = TRUE
  /\ frame = NoFrame
  /\ InitFine
  /\ InitLogs

\* the transport calls usb_midi_rx_callback with rx_data
RxDeliver ==
  /\ running
  /\ rx_pending
  /\ event_queue' = usb_midi_rx_callback(event_queue, rx_data, tick)
  /\ rx_pending' = FALSE
  /\ UNCHANGED <<state, running, tick, inserted, rx_data, frame, fine>>

NextDecode ==
  \/ RxDeliver /\ UNCHANGED logs
  \/ LoopMidi /\ UNCHANGED logs
  \/ Render /\ UNCHANGED logs

SpecDecode == InitDecode /\ [][NextDecode]_vars

(***************************************************************************)
(* Properties.                                                             *)
(***************************************************************************)
Range(q) == {q[k] : k \in 1 .. Len(q)}

\* the run loop is taking the event at the head of the queue
LoopTakes == running /\ event_queue # <<>> /\ event_queue' = Tail(event_queue)

\* the head of the queue is a press or a repeat of key
HeadIsKey(key) ==
  /\ event_queue # <<>>
  /\ Head(event_queue).type = EventTypeKey
  /\ Head(event_queue).input.key = key
  /\ Head(event_queue).input.type \in {"InputTypePress", "InputTypeRepeat"}

\* C1: after k MIDI events since the history was empty, with no clear in
\* between, slots 0 .. min(k, 8) - 1 hold the min(k, 8) most recently inserted
\* messages, the newest at index 0 and each older one at the next index.
C1_HistoryIsMostRecentFirst ==
  \A i \in Slots :
    i < Min(Len(inserted), MAX_MIDI_MESSAGES)
      => state.messages[i] = inserted[Len(inserted) - i]

\* the indices render_callback may read: [display_offset, display_offset + 4)
\* clipped to message_count
RenderWindow ==
  {i \in Slots : /\ i < state.message_count
                 /\ state.display_offset <= i
                 /\ i < state.display_offset + VISIBLE_LINES}

\* C2: every history entry below message_count, and so every entry in the
\* render's window, is a message inserted since the most recent clear (or
\* since the start): no slot left from before a clear and no slot never
\* written is reachable.
C2_WindowHoldsOnlyInsertedMessages ==
  /\ \A i \in Slots : i < state.message_count => state.messages[i] \in Range(inserted)
  /\ \A i \in RenderWindow : state.messages[i] \in Range(inserted)

\* C3: display_offset is a byte that never wraps below 0; display_offset + 4
\* does not exceed message_count, except that with fewer than 4 messages
\* display_offset is 0.
C3_ScrollClamp ==
  /\ state.display_offset \in 0 .. (MAX_MIDI_MESSAGES - VISIBLE_LINES)
  /\ state.message_count < VISIBLE_LINES => state.display_offset = 0
  /\ state.message_count >= VISIBLE_LINES
       => state.display_offset + VISIBLE_LINES <= state.message_count

\* C3's case: scrolled down to the end of a full history
C3_Witness ==
  /\ state.message_count = MAX_MIDI_MESSAGES
  /\ state.display_offset = MAX_MIDI_MESSAGES - VISIBLE_LINES

\* C4: whenever the run loop applies a press or a repeat of Ok, message_count
\* and display_offset are 0 afterwards, and applying the same clear to the
\* resulting state leaves that state as it is.
C4_ClearResetsAndIsIdempotent ==
  [][(LoopTakes /\ HeadIsKey("InputKeyOk"))
       => /\ state'.message_count = 0
          /\ state'.display_offset = 0
          /\ ProcessKey(state', Head(event_queue).input) = state']_vars

\* C4's case: a clear was applied to a history that held messages (slot 0
\* keeps what it held, the counters are 0)
C4_Witness ==
  /\ state.message_count = 0
  /\ state.display_offset = 0
  /\ inserted = <<>>
  /\ state.messages[0] # ZeroMessage

\* C5: message_count never exceeds 8 and equals min(k, 8) after k inserts
\* since the start or the most recent clear; no MIDI event is rejected: the
\* one applied last is in slot 0.
C5_CountIsMinOfInsertsAndCapacity ==
  /\ state.message_count <= MAX_MIDI_MESSAGES
  /\ state.message_count = Min(Len(inserted), MAX_MIDI_MESSAGES)
  /\ inserted # <<>> => state.messages[0] = inserted[Len(inserted)]

\* C5's case: a ninth message was inserted into the full history
C5_Witness == Len(inserted) = MAX_MIDI_MESSAGES + 1 /\ state.message_count = MAX_MIDI_MESSAGES

\* C6: the run loop stops only by applying a press or a repeat of Back, and
\* once it has stopped nothing waiting in the queue is applied.
C6_OnlyBackStopsTheLoop ==
  [][/\ (running /\ ~running') => (LoopTakes /\ HeadIsKey("InputKeyBack"))
     /\ ~running => UNCHANGED <<state, event_queue, running>>]_vars

\* C6's case: the loop has stopped with an event still waiting
C6_Witness == ~running /\ event_queue # <<>>

\* the messages decoded from rx_data so far: those inserted, then those waiting
Decoded == inserted \o [k \in 1 .. Len(event_queue) |-> event_queue[k].midi]

\* the complete 4-byte strides of data whose byte 0 has a nonzero high nibble,
\* in stride order, as <<byte 1, byte 2, byte 3>>
ExpectedStrides(data) ==
  LET n == Len(data) \div 4
      all == [k \in 1 .. n |-> <<data[4 * k - 3], data[4 * k - 2], data[4 * k - 1], data[4 * k]>>]
      valid == SelectSeq(all, LAMBDA stride : stride[1] >= 16)
  IN  [k \in 1 .. Len(valid) |-> <<valid[k][2], valid[k][3], valid[k][4]>>]

\* C7: from a packet of any length the callback enqueues exactly one MIDI event
\* for each complete 4-byte stride whose byte 0 has a nonzero high nibble, in
\* stride order, with status, data1, data2 from bytes 1, 2, 3; strides of
\* code 0 and a trailing 1 to 3 bytes give no event, and no byte at an index
\* >= the length is read.
C7_OneEventPerValidStride ==
  /\ rx_pending => Decoded = <<>>
  /\ ~rx_pending =>
       /\ [k \in 1 .. Len(Decoded) |-> <<Decoded[k].status, Decoded[k].data1, Decoded[k].data2>>]
            = ExpectedStrides(rx_data)
       /\ \A k \in 1 .. Len(event_queue) : event_queue[k].type = EventTypeMidi
  /\ \A idx \in RxReads(0, Len(rx_data)) : idx < Len(rx_data)

\* C7's case: a stride of code 0, then a valid stride, gave exactly one event
C7_Witness ==
  /\ ~rx_pending
  /\ Len(rx_data) = 8
  /\ rx_data[1] = 9
  /\ rx_data[5] = 144
  /\ Len(event_queue) = 1
  /\ event_queue[1].midi.status = rx_data[6]

\* the messages in the queue and in the valid history slots
StoredMessages ==
  {event_queue[k].midi : k \in {j \in 1 .. Len(event_queue) : event_queue[j].type = EventTypeMidi}}
    \cup {state.messages[i] : i \in {j \in Slots : j < state.message_count}}

\* C8: a stored message with status s in 0x80..0xEF has kind s & 0xF0 and
\* channel s & 0x0F, one with s >= 0xF0 has kind SystemMessage and channel 0,
\* and every stored kind and channel is that function of the stored status.
C8_KindAndChannelFollowStatus ==
  \A m \in StoredMessages :
    /\ (m.status >= 128 /\ m.status <= 239)
         => (m.type = 16 * (m.status \div 16) /\ m.channel = m.status % 16)
    /\ m.status >= 240 => (m.type = MidiSystemMessage /\ m.channel = 0)
    /\ m.type = parse_midi_status(m.status).type
    /\ m.channel = parse_midi_status(m.status).channel

\* C8's case: a system real-time byte, 0xF8, reached the history
C8_Witness ==
  /\ state.message_count = 1
  /\ state.messages[0].status = 248
  /\ state.messages[0].type = MidiSystemMessage

\* rx_data is one stride with a nonzero code whose status byte is below 0x80
UnknownStride == Len(rx_data) = 4 /\ rx_data[1] >= 16 /\ rx_data[2] < 128

\* the line of the Unknown template for status byte s
UnknownLine(s) == "Unknown 0x" \o HexDigits[(s \div 16) + 1] \o HexDigits[(s % 16) + 1]

\* C9: a stride with a nonzero code whose status byte is below 0x80 gives one
\* message; its kind is none of the eight named kinds, it is inserted like any
\* other message, it is rendered with the Unknown template, and the run loop
\* goes on.
C9_LowStatusIsUnknown ==
  UnknownStride =>
    /\ running
    /\ ~rx_pending => Len(Decoded) = 1
    /\ \A k \in 1 .. Len(Decoded) :
         /\ Decoded[k].status = rx_data[2]
         /\ Decoded[k].type \notin MidiMessageType
    /\ inserted # <<>> =>
         /\ state.message_count = 1
         /\ state.messages[0] = inserted[1]
         /\ render_callback(state).lines = <<UnknownLine(rx_data[2])>>
    /\ frame.lines \in {<<>>, <<UnknownLine(rx_data[2])>>}

\* C9's case: status byte 0x05 was decoded, inserted and drawn
C9_Witness ==
  /\ rx_data = <<144, 5, 60, 100>>
  /\ state.message_count = 1
  /\ frame.lines = <<"Unknown 0x05">>

\* the name of note: the pitch class, then the octave floor(note / 12) - 1 as a
\* signed number
ExpectedNoteName(note) ==
  LET octave == (note \div 12) - 1
  IN  note_names[(note % 12) + 1]
        \o (IF octave < 0 THEN "-" \o DecDigits(-octave) ELSE DecDigits(octave))

\* C10: for every note 0..127 the note is rendered as its pitch class and the
\* octave floor(note / 12) - 1, signed: 60 is C4, 69 is A4, 0..11 have octave -1.
C10_NoteNameIsExact ==
  /\ ExpectedNoteName(60) = "C4"
  /\ ExpectedNoteName(69) = "A4"
  /\ ExpectedNoteName(0) = "C-1"
  /\ (/\ Len(rx_data) = 4
      /\ rx_data[1] >= 16
      /\ rx_data[2] = MidiNoteOn
      /\ rx_data[3] <= 127
      /\ rx_data[4] = 100
      /\ frame.lines # <<>>)
       => frame.lines = <<"NoteOn  Ch01 " \o ExpectedNoteName(rx_data[3]) \o " Vel100">>

(***************************************************************************)
(* C11: in every reachable state render_callback draws the up indicator    *)
(* exactly when display_offset > 0 and the down indicator exactly when     *)
(* display_offset + 4 < message_count: the gate message_count > 4 around   *)
(* both never hides an indicator the two conditions call for.              *)
(***************************************************************************)
C11_IndicatorsFollowTheWindow ==
  /\ render_callback(state).up = (state.display_offset > 0)
  /\ render_callback(state).down =
       (state.display_offset + VISIBLE_LINES < state.message_count)

\* scrolled into the middle of a full history: both indicators are drawn
C11_Witness ==
  /\ state.message_count = MAX_MIDI_MESSAGES
  /\ state.display_offset = 2
  /\ render_callback(state).up
  /\ render_callback(state).down

\* a signed value of at most four digits as "%+05d" prints it
ExpectedBendText(v) ==
  LET digit == <<"0", "1", "2", "3", "4", "5", "6", "7", "8", "9">>
      a == IF v < 0 THEN 0 - v ELSE v
  IN  (IF v < 0 THEN "-" ELSE "+")
        \o digit[(a \div 1000) + 1] \o digit[((a \div 100) % 10) + 1]
        \o digit[((a \div 10) % 10) + 1] \o digit[(a % 10) + 1]

\* the packet is one Pitch Bend stride on channel 1 and its line has been drawn
BendDrawn == rx_data \in BendPackets /\ frame.lines # <<>>

(***************************************************************************)
(* C12: for all data bytes data1, data2 in 0..127 the line of a Pitch Bend *)
(* message shows (data2 * 128 + data1) - 8192, a value in -8192..8191 that *)
(* the int16_t holds unchanged; (0,0) shows -8192, (0,64) shows 0 and      *)
(* (127,127) shows 8191.                                                   *)
(***************************************************************************)
C12_PitchBendIsExact ==
  /\ BendDrawn =>
       LET v == (rx_data[4] * 128 + rx_data[3]) - 8192
       IN  /\ v \in -8192 .. 8191
           /\ PitchBendValue(rx_data[3], rx_data[4]) = v
           /\ frame.lines = <<"PitchBd Ch01 " \o ExpectedBendText(v)>>
  /\ (BendDrawn /\ rx_data = <<224, 224, 0, 0>>) => frame.lines = <<"PitchBd Ch01 -8192">>
  /\ (BendDrawn /\ rx_data = <<224, 224, 0, 64>>) => frame.lines = <<"PitchBd Ch01 +0000">>
  /\ (BendDrawn /\ rx_data = <<224, 224, 127, 127>>) => frame.lines = <<"PitchBd Ch01 +8191">>

\* the largest bend has been decoded, inserted and drawn
C12_Witness ==
  /\ BendDrawn
  /\ rx_data = <<224, 224, 127, 127>>
  /\ state.messages[0].type = MidiPitchBend
  /\ frame.lines = <<"PitchBd Ch01 +8191">>

(***************************************************************************)
(* C13: in every reachable state, for all indices i < j < message_count,   *)
(* the timestamp of history entry i is strictly greater than that of entry *)
(* j (newest first); insert, clear and scroll preserve this.               *)
(***************************************************************************)
C13_TimestampsStrictlyDescending ==
  \A i, j \in Slots :
    (i < j /\ j < state.message_count)
      => state.messages[i].timestamp > state.messages[j].timestamp

\* C13 as the code keeps it: for all indices i < j < message_count the
\* timestamp of entry i is greater than or equal to that of entry j; two
\* messages decoded within one tick carry the same timestamp.
C13_TimestampsNeverAscend ==
  \A i, j \in Slots :
    (i < j /\ j < state.message_count)
      => state.messages[i].timestamp >= state.messages[j].timestamp

\* the two newest entries are messages decoded within the same tick, after a
\* tick has passed: entries 0 and 1 are equal, entry 2 is older
C13_Witness ==
  /\ state.message_count = MAX_MIDI_MESSAGES
  /\ state.messages[0].status = 144 /\ state.messages[0].timestamp = 1
  /\ state.messages[1].status = 144 /\ state.messages[1].timestamp = 1
  /\ state.messages[2].timestamp = 0

\* usb_midi_rx_callback has just run the body of its loop for one stride
RxStepTaken == rx_pending /\ rx_i' = rx_i + 4

\* p is the beginning of q
IsPrefix(p, q) == Len(p) <= Len(q) /\ SubSeq(q, 1, Len(p)) = p

(***************************************************************************)
(* C14: usb_midi_rx_callback never blocks on the event queue.  The queue   *)
(* never holds more than 16 events; a stride of the callback can always be *)
(* taken; when the queue holds 16 the put fails at once: the new event is  *)
(* dropped, the queued events keep their content and order, no state of    *)
(* the application changes, and the callback goes on to the next stride.   *)
(***************************************************************************)
C14_RxNeverBlocksAndDropsWhenFull ==
  [][ /\ Len(event_queue') <= QUEUE_CAPACITY
      /\ (rx_pending /\ RxContinue(rx_i, Len(rx_data))) => ENABLED RxStep
      /\ RxStepTaken =>
           /\ IsPrefix(event_queue, event_queue')
           /\ Len(event_queue') <= Len(event_queue) + 1
           /\ Len(event_queue) = QUEUE_CAPACITY => event_queue' = event_queue
           /\ state' = state
           /\ running' = running
           /\ rx_pending'
    ]_vars

\* the callback has passed its last stride with the queue full, and the
\* newest queued event is older than the stride: that stride's event was dropped
C14_Witness ==
  /\ Len(event_queue) = QUEUE_CAPACITY
  /\ rx_pending
  /\ rx_i = 12
  /\ tick = 1
  /\ event_queue[QUEUE_CAPACITY].midi.timestamp = 0

(***************************************************************************)
(* SpecOrder: the producers and the run loop of Spec, with a log of the    *)
(* events the queue accepted and a log of the events the loop applied.     *)
(* At most MaxEvents events are accepted.                                  *)
(***************************************************************************)
MaxEvents == 4

\* a Note On stride and a Note Off stride in one packet, and a Control Change
OrderPackets == {<<144, 144, 60, 100, 128, 128, 60, 0>>, <<176, 176, 7, 100>>}

\* a scroll key, a key that does nothing and the key that stops the loop
OrderKeys ==
  {InputEvent("InputKeyDown", "InputTypePress"), InputEvent("InputKeyBack", "InputTypeRelease"),
   InputEvent("InputKeyBack", "InputTypePress")}

\* the events of the valid strides of data, in stride order
StrideEvents(data, now) ==
  LET strides == ExpectedStrides(data)
  IN  [k \in 1 .. Len(strides) |->
         MidiEvent(RxMessage(strides[k][1], strides[k][2], strides[k][3], now))]

OrderInput(input) ==
  /\ Len(accepted) < MaxEvents
  /\ InputCallback(input)
  /\ accepted' = Append(accepted, KeyEvent(input))
  /\ applied' = applied

OrderMidi(data) ==
  /\ Len(accepted) + Len(StrideEvents(data, tick)) <= MaxEvents
  /\ UsbMidiRx(data)
  /\ accepted' = accepted \o StrideEvents(data, tick)
  /\ applied' = applied

OrderUsbStatus(connected) ==
  /\ Len(accepted) < MaxEvents
  /\ UsbStatusNotify(connected)
  /\ accepted' = Append(accepted, UsbStatusEvent(connected))
  /\ applied' = applied

\* one iteration of the run loop that got an event
OrderLoop ==
  /\ LoopKey \/ LoopMidi \/ LoopUsbStatus
  /\ applied' = Append(applied, Head(event_queue))
  /\ accepted' = accepted

NextOrder ==
  \/ \E input \in OrderKeys : OrderInput(input)
  \/ \E data \in OrderPackets : OrderMidi(data)
  \/ \E connected \in BOOLEAN : OrderUsbStatus(connected)
  \/ OrderLoop
  \/ LoopTimeout

SpecOrder == Init /\ [][NextOrder]_vars

\* the MIDI messages among the events of q, in the order of q
MidiOf(q) ==
  LET midi == SelectSeq(q, LAMBDA ev : ev.type = EventTypeMidi)
  IN  [k \in 1 .. Len(midi) |-> midi[k].midi]

\* the value of the last connectivity event of q, FALSE when there is none
LastUsbOf(q) ==
  LET usb == SelectSeq(q, LAMBDA ev : ev.type = EventTypeUsbStatus)
  IN  IF usb = <<>> THEN init_usb_midi ELSE usb[Len(usb)].usb_connected

(***************************************************************************)
(* C15: events are applied to the shared state in exactly the order in     *)
(* which the queue accepted them, whatever their kinds: the events applied *)
(* so far followed by the events still queued are the accepted events in   *)
(* the order of the puts, the messages inserted are the MIDI events        *)
(* applied, in order, the connectivity flag is that of the last            *)
(* connectivity event applied, and the strides of one packet are accepted, *)
(* and so inserted, in stride order.                                       *)
(***************************************************************************)
C15_AppliedInAcceptedOrder ==
  /\ accepted = applied \o event_queue
  /\ inserted = MidiOf(applied)
  /\ state.usb_connected = LastUsbOf(applied)
  /\ state.message_count = Len(inserted)
  /\ state.message_count > 0 => state.messages[0] = inserted[Len(inserted)]

\* a key event, the two strides of a packet and a connectivity event have
\* all been applied, in the order they were accepted
C15_Witness ==
  /\ Len(applied) = MaxEvents
  /\ applied[1].type = EventTypeKey
  /\ applied[2].type = EventTypeMidi /\ applied[2].midi.status = 144
  /\ applied[3].type = EventTypeMidi /\ applied[3].midi.status = 128
  /\ applied[4].type = EventTypeUsbStatus
  /\ state.messages[0].status = 128

(***************************************************************************)
(* C17: applying Up when display_offset = 0, or Down when                  *)
(* display_offset + 4 >= message_count, leaves display_offset,             *)
(* message_count, the slots and the connectivity flag unchanged; in every  *)
(* other state Up decreases and Down increases display_offset by exactly   *)
(* one and changes nothing else.                                           *)
(***************************************************************************)
C17_ScrollMovesByOneOrNotAtAll ==
  [][ /\ (LoopTakes /\ HeadIsKey("InputKeyUp")) =>
           /\ running' = running
           /\ IF state.display_offset = 0
              THEN state' = state
              ELSE state' = [state EXCEPT !.display_offset = state.display_offset - 1]
      /\ (LoopTakes /\ HeadIsKey("InputKeyDown")) =>
           /\ running' = running
           /\ IF state.display_offset + VISIBLE_LINES >= state.message_count
              THEN state' = state
              ELSE state' = [state EXCEPT !.display_offset = state.display_offset + 1]
    ]_vars

\* Down has moved the window to the end of a full history and another Down is
\* the next event
C17_Witness ==
  /\ state.message_count = MAX_MIDI_MESSAGES
  /\ state.display_offset = MAX_MIDI_MESSAGES - VISIBLE_LINES
  /\ HeadIsKey("InputKeyDown")

\* the run loop takes an event of the given kind
LoopTakesKind(kind) == LoopTakes /\ Head(event_queue).type = kind

(***************************************************************************)
(* C18: after startup the connectivity flag changes only when the run loop *)
(* applies a connectivity event, and then takes exactly that event's       *)
(* value; applying a connectivity event leaves the slots, message_count    *)
(* and display_offset unchanged, and key and MIDI events leave the flag    *)
(* unchanged.                                                              *)
(***************************************************************************)
C18_OnlyConnectivityEventsSetTheFlag ==
  [][ /\ state'.usb_connected # state.usb_connected => LoopTakesKind(EventTypeUsbStatus)
      /\ LoopTakesKind(EventTypeUsbStatus) =>
           /\ state' = [state EXCEPT !.usb_connected = Head(event_queue).usb_connected]
           /\ running' = running
      /\ (LoopTakesKind(EventTypeKey) \/ LoopTakesKind(EventTypeMidi)) =>
           state'.usb_connected = state.usb_connected
    ]_vars

\* a connectivity event has set the flag, with a scrolled history in place,
\* and the event that clears the flag again is next
C18_Witness ==
  /\ state.usb_connected
  /\ state.message_count = MAX_MIDI_MESSAGES
  /\ state.display_offset = 2
  /\ event_queue # <<>>
  /\ Head(event_queue) = UsbStatusEvent(FALSE)

\* the key event at the head of the queue is one the switch ignores
HeadIsIgnoredKey ==
  /\ event_queue # <<>>
  /\ Head(event_queue).type = EventTypeKey
  /\ \/ Head(event_queue).input.type \notin {"InputTypePress", "InputTypeRepeat"}
     \/ Head(event_queue).input.key \notin
          {"InputKeyUp", "InputKeyDown", "InputKeyOk", "InputKeyBack"}

(***************************************************************************)
(* C19: a key event whose phase is neither press nor repeat (a release of  *)
(* Back or Ok, say), or whose key is none of Up, Down, Ok, Back, changes   *)
(* no part of the state (slots, message_count, display_offset,             *)
(* connectivity) and does not stop the run loop.                           *)
(***************************************************************************)
C19_OtherKeyEventsChangeNothing ==
  [][ (LoopTakes /\ HeadIsIgnoredKey) => (state' = state /\ running' /\ inserted' = inserted)
    ]_vars

\* a release of Back is next while there is a scrolled history to lose, and
\* a press of a key outside the four waits behind it
C19_Witness ==
  /\ running
  /\ state.message_count = MAX_MIDI_MESSAGES
  /\ state.display_offset = 1
  /\ state.usb_connected
  /\ event_queue = <<KeyEvent(InputEvent("InputKeyBack", "InputTypeRelease")),
                     KeyEvent(InputEvent("InputKeyLeft", "InputTypePress"))>>

(***************************************************************************)
(* SpecMutex: the run loop and render_callback statement by statement,     *)
(* with app->mutex.  loop_pc is the statement the run loop is at: "get",   *)
(* "acquire", "switch", "store" (inside add_midi_message, before           *)
(* messages[0] is written) and "release"; render_pc is "idle", "wait" (in  *)
(* furi_mutex_acquire), "draw" and "drawn".  The kernel gives the mutex to *)
(* a thread that keeps asking for it, and every thread keeps running.      *)
(***************************************************************************)
\* a mutex that is handed out whoever holds it
MutexCanAcquire_Always(m) == TRUE

\* furi_mutex_acquire(app->mutex, FuriWaitForever) returns once the mutex is free
MutexCanAcquire(m) == m = "free"

\* add_midi_message up to its comment "Add new message at the top"
AddShift(st) ==
  LET full == ~(st.message_count < MAX_MIDI_MESSAGES)
      shifted == [i \in Slots |-> IF i > 0 THEN st.messages[i - 1] ELSE st.messages[i]]
  IN  [st EXCEPT !.message_count = IF full THEN @ ELSE U8(@ + 1),
                 !.messages = IF full THEN shifted ELSE @]

\* state->messages[0] = *message; state->last_message_time = furi_get_tick();
AddStore(st, message, now) ==
  [st EXCEPT !.messages = [@ EXCEPT ![0] = message], !.last_message_time = now]

\* SpecMutex: the messages sent between two clears
MaxMutexInserts == 2

\* the keys of SpecMutex: clear, and stop
MutexKeys == {InputEvent(k, "InputTypePress") : k \in {"InputKeyOk", "InputKeyBack"}}

\* furi_message_queue_get returns an event
MGet ==
  /\ running
  /\ loop_pc = "get"
  /\ event_queue # <<>>
  /\ loop_event' = Head(event_queue)
  /\ event_queue' = Tail(event_queue)
  /\ loop_pc' = "acquire"
  /\ UNCHANGED <<state, running, tick, inserted, rx_data, rx_pending, frame,
                 rx_i, input_wait, mutex, render_pc, logs>>

\* furi_mutex_acquire in the run loop
MAcquire ==
  /\ loop_pc = "acquire"
  /\ MutexCanAcquire(mutex)
  /\ mutex' = "loop"
  /\ loop_pc' = "switch"
  /\ UNCHANGED <<state, event_queue, running, tick, inserted, rx_data, rx_pending, frame,
                 rx_i, input_wait, loop_event, render_pc, logs>>

\* switch(event.type): the key and connectivity cases whole, the MIDI case up
\* to the store in add_midi_message
MSwitch ==
  /\ loop_pc = "switch"
  /\ CASE loop_event.type = EventTypeKey ->
            /\ state' = ProcessKey(state, loop_event.input)
            /\ running' = ~KeyStopsLoop(loop_event.input)
            /\ inserted' = IF KeyClears(loop_event.input) THEN <<>> ELSE inserted
            /\ loop_pc' = "release"
       [] loop_event.type = EventTypeMidi ->
            /\ state' = AddShift(state)
            /\ loop_pc' = "store"
            /\ UNCHANGED <<running, inserted>>
       [] loop_event.type = EventTypeUsbStatus ->
            /\ state' = ApplyUsbStatus(state, loop_event.usb_connected)
            /\ loop_pc' = "release"
            /\ UNCHANGED <<running, inserted>>
  /\ UNCHANGED <<event_queue, tick, rx_data, rx_pending, frame,
                 rx_i, input_wait, mutex, loop_event, render_pc, logs>>

\* the rest of add_midi_message
MStore ==
  /\ loop_pc = "store"
  /\ state' = AddStore(state, loop_event.midi, tick)
  /\ inserted' = Remember(inserted, loop_event.midi)
  /\ loop_pc' = "release"
  /\ UNCHANGED <<event_queue, running, tick, rx_data, rx_pending, frame,
                 rx_i, input_wait, mutex, loop_event, render_pc, logs>>

\* furi_mutex_release and view_port_update in the run loop
MRelease ==
  /\ loop_pc = "release"
  /\ mutex' = "free"
  /\ loop_pc' = "get"
  /\ UNCHANGED <<state, event_queue, running, tick, inserted, rx_data, rx_pending, frame,
                 rx_i, input_wait, loop_event, render_pc, logs>>

\* the GUI calls render_callback, which asks for the mutex
RCall ==
  /\ running
  /\ render_pc = "idle"
  /\ render_pc' = "wait"
  /\ UNCHANGED <<state, event_queue, running, tick, inserted, rx_data, rx_pending, frame,
                 rx_i, input_wait, mutex, loop_pc, loop_event, logs>>

\* furi_mutex_acquire in render_callback
RAcquire ==
  /\ render_pc = "wait"
  /\ MutexCanAcquire(mutex)
  /\ mutex' = "render"
  /\ render_pc' = "draw"
  /\ UNCHANGED <<state, event_queue, running, tick, inserted, rx_data, rx_pending, frame,
                 rx_i, input_wait, loop_pc, loop_event, logs>>

\* render_callback reads the state and draws
RDraw ==
  /\ render_pc = "draw"
  /\ frame' = render_callback(state)
  /\ render_pc' = "drawn"
  /\ UNCHANGED <<state, event_queue, running, tick, inserted, rx_data, rx_pending,
                 rx_i, input_wait, mutex, loop_pc, loop_event, logs>>

\* furi_mutex_release in render_callback
RRelease ==
  /\ render_pc = "drawn"
  /\ mutex' = "free"
  /\ render_pc' = "idle"
  /\ UNCHANGED <<state, event_queue, running, tick, inserted, rx_data, rx_pending, frame,
                 rx_i, input_wait, loop_pc, loop_event, logs>>

\* the transport of SpecMutex: it stops once MaxMutexInserts messages have
\* been sent since the last clear
MutexMidiRx(data) ==
  /\ Len(inserted) + PendingMidi(event_queue)
       + (IF loop_pc \in {"acquire", "switch", "store"} /\ loop_event.type = EventTypeMidi
          THEN 1 ELSE 0) < MaxMutexInserts
  /\ UsbMidiRx(data)

NextMutex ==
  \/ (\E input \in MutexKeys : InputCallback(input)) /\ UNCHANGED logs
  \/ (\E data \in MidiPackets : MutexMidiRx(data)) /\ UNCHANGED logs
  \/ (\E connected \in BOOLEAN : UsbStatusNotify(connected)) /\ UNCHANGED logs
  \/ MGet
  \/ MAcquire
  \/ MSwitch
  \/ MStore
  \/ MRelease
  \/ RCall
  \/ RAcquire
  \/ RDraw
  \/ RRelease
  \/ LoopTimeout

SpecMutex ==
  /\ Init
  /\ [][NextMutex]_vars
  /\ WF_vars(MGet) /\ WF_vars(MSwitch) /\ WF_vars(MStore) /\ WF_vars(MRelease)
  /\ WF_vars(RDraw) /\ WF_vars(RRelease)
  /\ SF_vars(MAcquire) /\ SF_vars(RAcquire)

\* the run loop is between furi_mutex_acquire and furi_mutex_release
LoopInside == loop_pc \in {"switch", "store", "release"}

\* render_callback is between furi_mutex_acquire and furi_mutex_release
RenderInside == render_pc \in {"draw", "drawn"}

\* never both inside; the mutex is held exactly by the side that is inside;
\* no frame shows the one-entry history of an insert that has advanced
\* message_count and not yet written slot 0; the two halves of
\* add_midi_message make up add_midi_message
MutexExclusion ==
  /\ ~(LoopInside /\ RenderInside)
  /\ LoopInside <=> mutex = "loop"
  /\ RenderInside <=> mutex = "render"
  /\ Len(frame.lines) = 1 => frame.lines[1] # format_midi_message(ZeroMessage)
  /\ loop_event.type = EventTypeMidi =>
       AddStore(AddShift(state), loop_event.midi, tick)
         = add_midi_message(state, loop_event.midi, tick)

\* every write of the state is a step of the run loop holding the mutex, and
\* every read for a frame is a step of render_callback holding it
MutexGuardsAccess ==
  /\ state' # state => (mutex = "loop" /\ mutex' = "loop")
  /\ frame' # frame => (mutex = "render" /\ mutex' = "render")
  /\ (render_pc = "draw" /\ render_pc' = "drawn") =>
       (mutex = "render" /\ loop_pc \in {"get", "acquire"})

(***************************************************************************)
(* C16: render_callback and the run loop's application of an event never   *)
(* overlap: every read or write of the slots, message_count,               *)
(* display_offset and the connectivity flag happens while the single mutex *)
(* is held, so a render never observes an insert in which message_count    *)
(* has advanced but slot 0 is not yet written; and neither side waits for  *)
(* the mutex forever.                                                      *)
(***************************************************************************)
C16_MutexSeparatesRenderAndLoop ==
  /\ []MutexExclusion
  /\ [][MutexGuardsAccess]_vars
  /\ (render_pc = "wait") ~> (render_pc = "draw")
  /\ (loop_pc = "acquire") ~> (loop_pc = "switch")

\* render_callback waits for the mutex while the run loop is inside
\* add_midi_message with message_count advanced and slot 0 not yet written
C16_Witness ==
  /\ render_pc = "wait"
  /\ loop_pc = "store"
  /\ mutex = "loop"
  /\ state.message_count = 1
  /\ state.messages[0] = ZeroMessage

(***************************************************************************)
(* SpecFlood: input_callback in two steps, its call and the return of its  *)
(* waiting put, against a transport that is never held back, so that MIDI  *)
(* events can fill every slot the run loop frees.  input_wait is the event *)
(* input_callback is waiting to put.  The run loop and the waiting put are *)
(* scheduled fairly; the transport is free to call or not.                 *)
(***************************************************************************)
\* the key events in the queue or waiting for it
MaxFloodKeys == 1

\* a press and a release of Back
FloodKeys == {InputEvent("InputKeyBack", t) : t \in {"InputTypePress", "InputTypeRelease"}}

\* the key events of q
KeysOf(q) == SelectSeq(q, LAMBDA ev : ev.type = EventTypeKey)

\* the input service calls input_callback, which builds its event
InputCall(input) ==
  /\ running
  /\ input_wait = NoEvent
  /\ Len(KeysOf(event_queue)) < MaxFloodKeys
  /\ input_wait' = KeyEvent(input)
  /\ UNCHANGED <<state, event_queue, running, tick, inserted, rx_data, rx_pending, frame,
                 rx_i, mutex, loop_pc, loop_event, render_pc, logs>>

\* furi_message_queue_put(..., FuriWaitForever) finds room and returns
InputPut ==
  /\ input_wait # NoEvent
  /\ Len(event_queue) < QUEUE_CAPACITY
  /\ event_queue' = Append(event_queue, input_wait)
  /\ input_wait' = NoEvent
  /\ UNCHANGED <<state, running, tick, inserted, rx_data, rx_pending, frame,
                 rx_i, mutex, loop_pc, loop_event, render_pc, logs>>

\* the transport calls usb_midi_rx_callback whenever it likes
FloodRx(data) ==
  /\ running
  /\ event_queue' = usb_midi_rx_callback(event_queue, data, tick)
  /\ UNCHANGED <<state, running, tick, inserted, rx_data, rx_pending, frame, fine, logs>>

FloodLoopKey == LoopKey /\ UNCHANGED logs

FloodLoopMidi == LoopMidi /\ UNCHANGED logs

NextFlood ==
  \/ \E input \in FloodKeys : InputCall(input)
  \/ InputPut
  \/ \E data \in HistoryPackets : FloodRx(data)
  \/ FloodLoopKey
  \/ FloodLoopMidi
  \/ LoopTimeout

SpecFlood ==
  /\ Init
  /\ [][NextFlood]_vars
  /\ WF_vars(FloodLoopKey) /\ WF_vars(FloodLoopMidi)
  /\ WF_vars(InputPut)

\* a press of Back
BackPress == KeyEvent(InputEvent("InputKeyBack", "InputTypePress"))

(***************************************************************************)
(* C20: key events are never dropped: input_callback waits for room, so    *)
(* with the run loop scheduled fairly every press of Back delivered to     *)
(* input_callback while the loop runs is eventually applied and the loop   *)
(* stops, even when MIDI packets keep arriving and keep the queue full.    *)
(***************************************************************************)
C20_EveryBackPressStopsTheLoop == (running /\ input_wait = BackPress) ~> ~running

\* C20 as the code keeps it: input_callback never discards its event, it puts
\* it at the tail of the queue or goes on waiting; no other step removes or
\* moves a queued key event; and every press of Back that is in the queue is
\* eventually applied and the loop stops, however many MIDI packets arrive.
C20_QueuedBackPressStopsTheLoop ==
  /\ [][ /\ input_wait # NoEvent =>
              \/ input_wait' = input_wait
              \/ input_wait' = NoEvent /\ event_queue' = Append(event_queue, input_wait)
         /\ KeysOf(event_queue') # KeysOf(event_queue) =>
              \/ input_wait # NoEvent /\ event_queue' = Append(event_queue, input_wait)
              \/ /\ LoopTakes
                 /\ Head(event_queue).type = EventTypeKey
                 /\ KeysOf(event_queue') = Tail(KeysOf(event_queue))
       ]_vars
  /\ (\E k \in 1 .. Len(event_queue) : event_queue[k] = BackPress) ~> ~running

\* a press of Back has got the last free slot of the queue, behind fifteen
\* MIDI events
C20_Witness ==
  /\ running
  /\ Len(event_queue) = QUEUE_CAPACITY
  /\ event_queue[QUEUE_CAPACITY] = BackPress
  /\ PendingMidi(event_queue) = QUEUE_CAPACITY - 1

====
